---- MODULE Spec2Model ----
(***************************************************************************)
(* Model of the money_manager synchronisation engine:                      *)
(*   services/sync_service.py  SyncService.sync_customer_data and helpers  *)
(*   api/callbacks.py          webhook handlers (status transitions)       *)
(*   api/connections.py        delete_connection (cascading delete)        *)
(* The local store is three tables of rows (connections, accounts,         *)
(* transactions) with surrogate ids and remote ids.  One sync run is one   *)
(* action: it works on the session's view of the store and commits once.   *)
(***************************************************************************)
EXTENDS Integers, Sequences, FiniteSets, TLC

VARIABLES store, lastOp, ops, conc, secret, queue, response, probe

vars == <<store, lastOp, ops, conc, secret, queue, response, probe>>

(***************************************************************************)
(* Bounds of the model: how many remote ids of each kind the aggregator    *)
(* can report.                                                             *)
(***************************************************************************)
\* MaxOps bounds the number of operations in a behaviour.
MaxOps == 3
NumConns == 2
NumAccts == 2
NumTxs == 2

ConnIds == 1..NumConns
AcctIds == 1..NumAccts
TxIds == 1..NumTxs

\* A payload key that is absent (dict.get(...) returns None) and a column
\* that holds NULL.
NoVal == "none"

(***************************************************************************)
(* Local customers.  Customers are created by an explicit call and never   *)
(* by sync; the model starts with two of them in the store.                *)
(***************************************************************************)
Customers ==
    { [id |-> 1, identifier |-> "alice", saltedge_customer_id |-> "cust_1"],
      [id |-> 2, identifier |-> "bob", saltedge_customer_id |-> "cust_2"] }

\* Identifiers a caller may pass to a sync request; "carol" has no Customer.
Identifiers == {"alice", "bob", "carol"}

\* db.query(Customer).filter(Customer.identifier == x).first()
CustomerByIdentifier(ident) == {c \in Customers : c.identifier = ident}

(***************************************************************************)
(* The session.  Queries issued inside a run see the rows the run has      *)
(* added or changed so far (the session flushes before a query); commit    *)
(* makes the session's view the committed store, rollback discards it.     *)
(***************************************************************************)
\* db.query(Table).filter(Table.column == value)
SessionQuery(db, table, column, value) == {r \in db[table] : r[column] = value}

\* .first(): one matching row, or none.
HasFirst(rows) == rows # {}
First(rows) == CHOOSE r \in rows : TRUE

\* Surrogate primary key given to a newly inserted row.
NextId(rows) == CHOOSE i \in 1..(Cardinality(rows) + 1) : \A r \in rows : r.id # i

EmptyStore == [connections |-> {}, accounts |-> {}, transactions |-> {}]

(***************************************************************************)
(* The aggregator as one run sees it: what each list call returns, or that *)
(* it raises, and whether the final commit fails at the storage layer.     *)
(*   connections        the list_connections response (or a failure)       *)
(*   accounts[c]        the list_accounts response for connection c        *)
(*   transactions[a]    the list_transactions response for account a       *)
(***************************************************************************)
\* Timestamp strings of a payload and the datetime values of a column.
TsUtcMarker == "T1Z"
TsOffset == "T1+00:00"
TsGarbage == "garbage"
DateT1 == "T1"
DateNow == "now"

\* str.replace('Z', '+00:00')
ReplaceZ(s) == IF s = TsUtcMarker THEN TsOffset ELSE s

\* datetime.fromisoformat accepts the offset form; anything else raises ValueError.
IsIsoFormat(s) == s = TsOffset
FromIsoFormat(s) == IF s = TsOffset THEN DateT1 ELSE NoVal

\* Payload profiles: the descriptive values the aggregator reports in a run.
\* "p2" carries no status and no last_success_at.
Profiles == {"p1", "p2"}
ProfileStatus(p) == IF p = "p1" THEN "inactive" ELSE NoVal
ProfileStamp(p) == IF p = "p1" THEN TsUtcMarker ELSE NoVal
ProfileAmount(p) == IF p = "p1" THEN 1 ELSE 2

RECURSIVE Ascending(_)
\* The members of S in increasing order.
Ascending(S) ==
    IF S = {} THEN <<>>
    ELSE LET m == CHOOSE x \in S : \A y \in S : x <= y
         IN <<m>> \o Ascending(S \ {m})

\* How the remote tree is laid out: the connections listed (1..listed), the
\* connection each account is listed under, the account each transaction is
\* listed under.  Account a is at home under connection ((a-1) % NumConns)+1
\* or all accounts are under connection 1; likewise for transactions.
Home(x, n) == ((x - 1) % n) + 1
AcctOwners == {[a \in AcctIds |-> Home(a, NumConns)], [a \in AcctIds |-> 1]}
TxOwners == {[t \in TxIds |-> Home(t, NumAccts)], [t \in TxIds |-> 1]}
Layouts == [listed : 0..NumConns, own : AcctOwners, txown : TxOwners]

\* Faults of a run, at most one per run: a list call that raises, a payload
\* timestamp that does not parse, a commit that fails at the storage layer.
FaultsOf(lay) ==
    {[kind |-> "none", id |-> 0], [kind |-> "list_connections", id |-> 0],
     [kind |-> "commit", id |-> 0]}
    \cup {[kind |-> "timestamp", id |-> c] : c \in 1..lay.listed}
    \cup {[kind |-> "list_accounts", id |-> c] : c \in 1..lay.listed}
    \cup {[kind |-> "list_transactions", id |-> a] :
             a \in {x \in AcctIds : lay.own[x] \in 1..lay.listed}}

MkWorld(lay, p, f) ==
    [connections |->
        [fail |-> f.kind = "list_connections",
         data |-> [c \in 1..lay.listed |->
                    [id |-> c, status |-> ProfileStatus(p),
                     last_success_at |->
                        IF f.kind = "timestamp" /\ f.id = c
                        THEN TsGarbage ELSE ProfileStamp(p)]]],
     accounts |->
        [c \in ConnIds |->
            [fail |-> f.kind = "list_accounts" /\ f.id = c,
             data |-> LET mine == Ascending({a \in AcctIds : lay.own[a] = c})
                      IN [i \in 1..Len(mine) |->
                            [id |-> mine[i], balance |-> ProfileAmount(p)]]]],
     transactions |->
        [a \in AcctIds |->
            [fail |-> f.kind = "list_transactions" /\ f.id = a,
             data |-> LET mine == Ascending({t \in TxIds : lay.txown[t] = a})
                      IN [i \in 1..Len(mine) |->
                            [id |-> mine[i], amount |-> ProfileAmount(p)]]]],
     commit_fails |-> f.kind = "commit",
     fault |-> f]

(***************************************************************************)
(* SyncService: the upserts.  Each returns the session's view after it and *)
(* whether it raised; a raise leaves the writes made before it in the      *)
(* session.                                                                *)
(***************************************************************************)
Replace(rows, old, new) == (rows \ {old}) \cup {new}

\* updated_at of a Connection is refreshed by every UPDATE of the row
\* (onupdate=func.now()) and set by the sync itself; the model keeps which
\* kind of operation refreshed it last: a sync run or a status write of a
\* callback handler.
UpdatedBySync == "at_sync"
UpdatedByStatusWrite == "at_status_write"

_sync_connection(db, connection_data, customer) ==
    LET found == SessionQuery(db, "connections",
                     "saltedge_connection_id", connection_data.id)
        connection ==
            IF HasFirst(found) THEN First(found)
            ELSE [id |-> NextId(db.connections),
                  saltedge_connection_id |-> connection_data.id,
                  customer_id |-> customer.id,
                  status |-> NoVal, last_success_at |-> NoVal,
                  updated_at |-> NoVal]
        updated == [connection EXCEPT !.status = connection_data.status,
                                      !.updated_at = UpdatedBySync]
        stamp == ReplaceZ(connection_data.last_success_at)
        bad == connection_data.last_success_at # NoVal /\ ~IsIsoFormat(stamp)
        stamped ==
            IF connection_data.last_success_at # NoVal /\ ~bad
            THEN [updated EXCEPT !.last_success_at = FromIsoFormat(stamp)]
            ELSE updated
    IN [db |-> [db EXCEPT !.connections = Replace(@, connection, stamped)],
        raised |-> bad]

\* Variant: the upsert moves a found account under the connection it was
\* reached through.
_sync_account_reparents(db, account_data, connection) ==
    LET found == SessionQuery(db, "accounts",
                     "saltedge_account_id", account_data.id)
        account ==
            IF HasFirst(found) THEN First(found)
            ELSE [id |-> NextId(db.accounts),
                  saltedge_account_id |-> account_data.id,
                  connection_id |-> connection.id,
                  balance |-> 0]
        updated == [account EXCEPT !.balance = account_data.balance,
                                   !.connection_id = connection.id]
    IN [db |-> [db EXCEPT !.accounts = Replace(@, account, updated)],
        raised |-> FALSE]

_sync_account(db, account_data, connection) ==
    LET found == SessionQuery(db, "accounts",
                     "saltedge_account_id", account_data.id)
        account ==
            IF HasFirst(found) THEN First(found)
            ELSE [id |-> NextId(db.accounts),
                  saltedge_account_id |-> account_data.id,
                  connection_id |-> connection.id,
                  balance |-> 0]
        updated == [account EXCEPT !.balance = account_data.balance]
    IN [db |-> [db EXCEPT !.accounts = Replace(@, account, updated)],
        raised |-> FALSE]

\* Variant: inserts a row without looking the remote id up first.
_sync_transaction_insert_only(db, transaction_data, account) ==
    [db |-> [db EXCEPT !.transactions = @ \cup
                {[id |-> NextId(db.transactions),
                  saltedge_transaction_id |-> transaction_data.id,
                  account_id |-> account.id,
                  amount |-> transaction_data.amount]}],
     raised |-> FALSE]

_sync_transaction(db, transaction_data, account) ==
    LET found == SessionQuery(db, "transactions",
                     "saltedge_transaction_id", transaction_data.id)
        transaction ==
            IF HasFirst(found) THEN First(found)
            ELSE [id |-> NextId(db.transactions),
                  saltedge_transaction_id |-> transaction_data.id,
                  account_id |-> account.id,
                  amount |-> 0]
        updated == [transaction EXCEPT !.amount = transaction_data.amount]
    IN [db |-> [db EXCEPT !.transactions = Replace(@, transaction, updated)],
        raised |-> FALSE]

\* result of one upsert added to the running counts of the transaction loop
CountTransaction(run, transaction_data, st) ==
    [run EXCEPT !.db = st.db,
                !.transactions_synced = @ + 1,
                !.up_txs = @ \cup {transaction_data.id}]

RECURSIVE TransactionsLoop(_, _, _)
\* for transaction_data in transactions_data.get("data", [])
TransactionsLoop(run, data, account) ==
    IF data = <<>> THEN run
    ELSE TransactionsLoop(
             CountTransaction(run, Head(data),
                              _sync_transaction(run.db, Head(data), account)),
             Tail(data), account)

\* The account is looked up by remote id and owning connection; ValueError
\* when there is none, and the fetch may raise.
TransactionsOfFound(db, world, saltedge_account_id, found) ==
    IF ~HasFirst(found) \/ world.transactions[saltedge_account_id].fail
    THEN [db |-> db, raised |-> TRUE, transactions_synced |-> 0, up_txs |-> {}]
    ELSE TransactionsLoop(
             [db |-> db, raised |-> FALSE, transactions_synced |-> 0, up_txs |-> {}],
             world.transactions[saltedge_account_id].data, First(found))

_sync_transactions_for_account(db, world, saltedge_account_id, connection) ==
    TransactionsOfFound(db, world, saltedge_account_id,
        SessionQuery(db, "accounts", "saltedge_account_id", saltedge_account_id)
            \cap SessionQuery(db, "accounts", "connection_id", connection.id))

\* The account upsert and the transaction sync of one account added to the
\* running counts of the account loop; a raise of the transaction sync is
\* the loop's raise.
CountAccount(run, account_data, tr) ==
    [run EXCEPT !.db = tr.db,
                !.raised = tr.raised,
                !.accounts_synced = @ + 1,
                !.transactions_synced = @ + tr.transactions_synced,
                !.up_accts = @ \cup {account_data.id},
                !.up_txs = @ \cup tr.up_txs]

RECURSIVE AccountsLoop(_, _, _, _)
\* for account_data in accounts_data.get("data", []); a raise ends the loop.
AccountsLoop(run, world, data, connection) ==
    IF data = <<>> \/ run.raised THEN run
    ELSE AccountsLoop(
             CountAccount(run, Head(data),
                 _sync_transactions_for_account(
                     _sync_account(run.db, Head(data), connection).db,
                     world, Head(data).id, connection)),
             world, Tail(data), connection)

\* The connection is looked up by remote id; ValueError when there is none,
\* and the fetch may raise.
AccountsOfFound(db, world, saltedge_connection_id, found) ==
    IF ~HasFirst(found) \/ world.accounts[saltedge_connection_id].fail
    THEN [db |-> db, raised |-> TRUE, accounts_synced |-> 0,
          transactions_synced |-> 0, up_accts |-> {}, up_txs |-> {}]
    ELSE AccountsLoop(
             [db |-> db, raised |-> FALSE, accounts_synced |-> 0,
              transactions_synced |-> 0, up_accts |-> {}, up_txs |-> {}],
             world, world.accounts[saltedge_connection_id].data, First(found))

_sync_accounts_for_connection(db, world, saltedge_connection_id) ==
    AccountsOfFound(db, world, saltedge_connection_id,
        SessionQuery(db, "connections", "saltedge_connection_id", saltedge_connection_id))

NoResult ==
    [customer_id |-> 0, connections_synced |-> 0, accounts_synced |-> 0,
     transactions_synced |-> 0, errors |-> <<>>]

ErrorFor(c) == [where |-> "accounts", connection |-> c]
ErrorConnections == [where |-> "connections", connection |-> 0]

\* The connection upsert added to the run: the row is in the session, the
\* counter is incremented only when the upsert returned.
CountConnection(run, connection_data, sc) ==
    [run EXCEPT !.db = sc.db,
                !.raised = sc.raised,
                !.connections_synced = IF sc.raised THEN @ ELSE @ + 1,
                !.up_conns = @ \cup {connection_data.id}]

\* Variant: without the inner try, a raise of the accounts step is the run's.
CountAccounts_no_inner_try(run, connection_data, sa) ==
    [run EXCEPT !.db = sa.db,
                !.raised = sa.raised,
                !.accounts_synced = @ + sa.accounts_synced,
                !.transactions_synced = @ + sa.transactions_synced,
                !.up_accts = @ \cup sa.up_accts,
                !.up_txs = @ \cup sa.up_txs]

\* The inner try: the counts of the accounts step are added when it returns;
\* when it raises, the error is recorded with the connection's remote id and
\* its counts are lost.
CountAccounts(run, connection_data, sa) ==
    [run EXCEPT !.db = sa.db,
                !.accounts_synced = IF sa.raised THEN @ ELSE @ + sa.accounts_synced,
                !.transactions_synced =
                    IF sa.raised THEN @ ELSE @ + sa.transactions_synced,
                !.errors = IF sa.raised THEN Append(@, ErrorFor(connection_data.id)) ELSE @,
                !.up_accts = @ \cup sa.up_accts,
                !.up_txs = @ \cup sa.up_txs]

\* The accounts step of a connection whose upsert returned.
SyncAccountsOf(run, world, connection_data) ==
    IF run.raised THEN run
    ELSE CountAccounts(run, connection_data,
             _sync_accounts_for_connection(run.db, world, connection_data.id))

RECURSIVE ConnectionsLoop(_, _, _, _)
\* for connection_data in connections_data.get("data", []); a raise of the
\* connection upsert ends the loop.
ConnectionsLoop(run, world, data, customer) ==
    IF data = <<>> \/ run.raised THEN run
    ELSE ConnectionsLoop(
             SyncAccountsOf(
                 CountConnection(run, Head(data),
                                 _sync_connection(run.db, Head(data), customer)),
                 world, Head(data)),
             world, Tail(data), customer)

\* Variant: without the outer try, a failure of the connection step propagates.
CatchConnections_reraise(start, fetch_failed, looped) ==
    IF fetch_failed THEN [start EXCEPT !.raised = TRUE] ELSE looped

\* The outer try of sync_customer_data: a failure of list_connections or of a
\* connection upsert is recorded and the run goes on to the commit.
CatchConnections(start, fetch_failed, looped) ==
    IF fetch_failed THEN [start EXCEPT !.errors = Append(@, ErrorConnections)]
    ELSE IF looped.raised
    THEN [looped EXCEPT !.raised = FALSE, !.errors = Append(@, ErrorConnections)]
    ELSE looped

SyncConnectionsTry(start, world, customer) ==
    CatchConnections(start, world.connections.fail,
        IF world.connections.fail THEN start
        ELSE ConnectionsLoop(start, world, world.connections.data, customer))

\* Variant: a failed commit leaves the session's writes in the store.
CommitOrRollback_keep_writes(committed, run, commit_fails) ==
    [store |-> run.db, raised |-> run.raised \/ commit_fails]

\* db.commit() at the end of the run; any exception that reaches the outer
\* handler rolls the session back and is raised again.
CommitOrRollback(committed, run, commit_fails) ==
    IF run.raised \/ commit_fails
    THEN [store |-> committed, raised |-> TRUE]
    ELSE [store |-> run.db, raised |-> FALSE]

\* What the caller gets: the committed store after the run, whether the call
\* raised, the result dict, and the remote ids whose rows the run wrote.
Returned(customer, run, done) ==
    [store |-> done.store, raised |-> done.raised,
     result |-> IF done.raised THEN NoResult
                ELSE [customer_id |-> customer.id,
                      connections_synced |-> run.connections_synced,
                      accounts_synced |-> run.accounts_synced,
                      transactions_synced |-> run.transactions_synced,
                      errors |-> run.errors],
     up_conns |-> run.up_conns, up_accts |-> run.up_accts, up_txs |-> run.up_txs]

CommitRun(committed, customer, run, commit_fails) ==
    Returned(customer, run, CommitOrRollback(committed, run, commit_fails))

SyncKnownCustomer(committed, customer, world) ==
    CommitRun(committed, customer,
        SyncConnectionsTry(
            [db |-> committed, raised |-> FALSE,
             connections_synced |-> 0, accounts_synced |-> 0,
             transactions_synced |-> 0, errors |-> <<>>,
             up_conns |-> {}, up_accts |-> {}, up_txs |-> {}],
            world, customer),
        world.commit_fails)

\* One run of SyncService.sync_customer_data against the committed store.
sync_customer_data(committed, customer_identifier, world) ==
    IF ~HasFirst(CustomerByIdentifier(customer_identifier))
    THEN [store |-> committed, raised |-> TRUE, result |-> NoResult,
          up_conns |-> {}, up_accts |-> {}, up_txs |-> {}]
    ELSE SyncKnownCustomer(committed, First(CustomerByIdentifier(customer_identifier)),
                           world)

RowCount(s) ==
    [connections |-> Cardinality(s.connections),
     accounts |-> Cardinality(s.accounts),
     transactions |-> Cardinality(s.transactions)]

(***************************************************************************)
(* api/connections.py: delete_connection.  The ORM cascade removes the     *)
(* connection's accounts and their transactions with it.                   *)
(***************************************************************************)
\* Variant: the connection row is removed without its accounts.
CascadeDelete_connection_only(db, connection) ==
    [db EXCEPT !.connections = @ \ {connection}]

CascadeDelete(db, connection) ==
    LET accounts == {a \in db.accounts : a.connection_id = connection.id}
        transactions ==
            {t \in db.transactions : \E a \in accounts : t.account_id = a.id}
    IN [connections |-> db.connections \ {connection},
        accounts |-> db.accounts \ accounts,
        transactions |-> db.transactions \ transactions]

\* Returns the committed store and the HTTP status of the response.
delete_connection(committed, connection_id, remote_ok) ==
    LET found == SessionQuery(committed, "connections", "id", connection_id)
    IN IF ~HasFirst(found) THEN [store |-> committed, code |-> 404]
       ELSE IF ~remote_ok THEN [store |-> committed, code |-> 500]
       ELSE [store |-> CascadeDelete(committed, First(found)), code |-> 204]

(***************************************************************************)
(* api/callbacks.py: the handlers run by the background tasks.  A missing  *)
(* connection_id or customer_id of the payload is 0 / NoVal.               *)
(***************************************************************************)
\* Variant: the customer lookup does not filter by the remote customer id.
CustomerBySaltedgeId_unfiltered(cid) == Customers

CustomerBySaltedgeId(cid) == {c \in Customers : c.saltedge_customer_id = cid}

\* Remote customer ids a payload may carry; "cust_9" is not known locally.
SaltedgeCustomerIds == {"cust_1", "cust_2", "cust_9", NoVal}

\* A status equal to the stored one is no net change and issues no UPDATE.
SetStatus(db, connection, status) ==
    IF connection.status = status THEN db
    ELSE [db EXCEPT !.connections =
             Replace(@, connection,
                 [connection EXCEPT !.status = status,
                                    !.updated_at = UpdatedByStatusWrite])]

\* connection.status = 'active'; connection.last_success_at = utcnow()
Activate(db, found) ==
    IF ~HasFirst(found) THEN db
    ELSE [db EXCEPT !.connections =
             Replace(@, First(found),
                 [First(found) EXCEPT !.status = "active", !.last_success_at = DateNow,
                                      !.updated_at = UpdatedByStatusWrite])]

\* Variant: the handler leaves the status as the sync run wrote it.
MarkActive_keeps_sync_status(committed, data, sync_result) ==
    IF sync_result.raised THEN committed ELSE sync_result.store

\* After the sync run of the success callback: the connection of the payload
\* is marked active; a run that raised leaves the store as it was.
MarkActive(committed, data, sync_result) ==
    IF sync_result.raised THEN committed
    ELSE Activate(sync_result.store,
             SessionQuery(sync_result.store, "connections",
                          "saltedge_connection_id", data.connection_id))

handle_success_callback(committed, data, world) ==
    IF data.connection_id = 0 \/ data.customer_id = NoVal THEN committed
    ELSE IF ~HasFirst(CustomerBySaltedgeId(data.customer_id)) THEN committed
    ELSE MarkActive(committed, data,
             sync_customer_data(committed,
                 First(CustomerBySaltedgeId(data.customer_id)).identifier, world))

\* Variant: the status is written to every connection, not only the one
\* with the connection id of the payload.
handle_error_callback_all_connections(committed, data) ==
    IF data.connection_id = 0 THEN committed
    ELSE [committed EXCEPT !.connections =
             {[c EXCEPT !.status = "error", !.updated_at = UpdatedByStatusWrite] : c \in @}]

handle_error_callback(committed, data) ==
    LET found == SessionQuery(committed, "connections",
                     "saltedge_connection_id", data.connection_id)
    IN IF data.connection_id = 0 \/ ~HasFirst(found) THEN committed
       ELSE SetStatus(committed, First(found), "error")

\* Variant: the destroy callback deletes the connection and its sub-tree.
handle_destroy_callback_hard_delete(committed, data) ==
    LET found == SessionQuery(committed, "connections",
                     "saltedge_connection_id", data.connection_id)
    IN IF data.connection_id = 0 \/ ~HasFirst(found) THEN committed
       ELSE CascadeDelete(committed, First(found))

\* Variant: the destroy callback deletes the connection row.
handle_destroy_callback_deletes_row(committed, data) ==
    LET found == SessionQuery(committed, "connections",
                     "saltedge_connection_id", data.connection_id)
    IN IF data.connection_id = 0 \/ ~HasFirst(found) THEN committed
       ELSE [committed EXCEPT !.connections = @ \ {First(found)}]

handle_destroy_callback(committed, data) ==
    LET found == SessionQuery(committed, "connections",
                     "saltedge_connection_id", data.connection_id)
    IN IF data.connection_id = 0 \/ ~HasFirst(found) THEN committed
       ELSE SetStatus(committed, First(found), "removed")

(***************************************************************************)
(* Actions.                                                                *)
(***************************************************************************)
NoFault == [kind |-> "none", id |-> 0]
HomeLayout(n) ==
    [listed |-> n, own |-> [a \in AcctIds |-> Home(a, NumConns)],
     txown |-> [t \in TxIds |-> Home(t, NumAccts)]]

\* The remote side of an operation: layout, profile and fault of the tree
\* the aggregator serves while the operation runs.
\* Every layout is served fault-free in each profile, and with each fault in
\* profile p1.
Remotes ==
    UNION {[lay : {l}, p : Profiles, f : {NoFault}] \cup [lay : {l}, p : {"p1"}, f : FaultsOf(l)] :
           l \in Layouts}
NoRemote == [lay |-> HomeLayout(0), p |-> "p1", f |-> NoFault]
WorldTable == [r \in Remotes \cup {NoRemote} |-> MkWorld(r.lay, r.p, r.f)]
WorldOf(remote) == WorldTable[remote]

NoRun == [raised |-> FALSE, result |-> NoResult]

RunOf(r) == [raised |-> r.raised, result |-> r.result]

Rows(s) ==
    Cardinality(s.connections) + Cardinality(s.accounts) + Cardinality(s.transactions)

\* What the last operation was, its argument (the identifier of a sync, the
\* payload of a callback, the id of a delete), the fault of the remote it ran
\* against, what it returned to its caller and how many rows it added.
Op(kind, arg, fault, run, after) ==
    [kind |-> kind, arg |-> arg, fault |-> fault, run |-> run,
     created |-> Rows(after) - Rows(store)]

\* No sync run in a transaction of its own is under way.
NoConc == [phase |-> "idle"]

\* No webhook request has been answered yet.
NoResponse == [code |-> 0, endpoint |-> NoVal]

\* No status probe has run.
NoProbe == [runs |-> 0]

\* The store is empty and nothing has run.  The secret key is configured:
\* SaltEdgeClient cannot be constructed without it.
Init ==
    /\ store = EmptyStore
    /\ lastOp = [kind |-> "init", arg |-> NoVal, fault |-> NoFault, run |-> NoRun,
                 created |-> 0]
    /\ ops = 0
    /\ conc = NoConc
    /\ secret = TRUE
    /\ queue = <<>>
    /\ response = NoResponse
    /\ probe = NoProbe

CanStep == ops < MaxOps
Step == CanStep /\ ops' = ops + 1 /\ UNCHANGED <<conc, secret, queue, response, probe>>

\* POST /sync/customer
Sync(identifier, remote) ==
    LET r == sync_customer_data(store, identifier, WorldOf(remote))
    IN /\ Step
       /\ store' = r.store
       /\ lastOp' = Op("sync", identifier, remote.f, RunOf(r), r.store)

\* DELETE /connections/{connection_id}
DeleteConnection(connection_id, remote_ok) ==
    LET r == delete_connection(store, connection_id, remote_ok)
    IN /\ Step
       /\ store' = r.store
       /\ lastOp' = Op("delete", connection_id, NoFault,
                       [NoRun EXCEPT !.raised = r.code # 204], r.store)

\* background task of POST /callbacks/ais/success
SuccessCallback(data, remote) ==
    LET after == handle_success_callback(store, data, WorldOf(remote))
    IN /\ Step
       /\ store' = after
       /\ lastOp' = Op("success", data, remote.f, NoRun, after)

\* background task of POST /callbacks/ais/failure
FailureCallback(data) ==
    LET after == handle_error_callback(store, data)
    IN /\ Step
       /\ store' = after
       /\ lastOp' = Op("failure", data, NoFault, NoRun, after)

\* background task of POST /callbacks/ais/destroy
DestroyCallback(data) ==
    LET after == handle_destroy_callback(store, data)
    IN /\ Step
       /\ store' = after
       /\ lastOp' = Op("destroy", data, NoFault, NoRun, after)

\* Inputs of the actions.
CallbackData == [connection_id : ConnIds \cup {0}, customer_id : SaltedgeCustomerIds]
StatusData == [connection_id : ConnIds \cup {0}, customer_id : {NoVal}]

\* The second customer is synced against fault-free remote trees of profile
\* p1; a sync for an identifier without Customer makes no remote call.
RemotesOf(identifier) ==
    IF identifier = "alice" THEN Remotes
    ELSE IF identifier = "bob"
    THEN {r \in Remotes : r.lay.listed > 0 /\ r.p = "p1" /\ r.f = NoFault}
    ELSE {NoRemote}

\* The remote tree the sync run of a success callback sees.
CallbackRemotes ==
    {r \in Remotes : r.lay = HomeLayout(NumConns) /\ r.f.kind \in {"none", "commit"}}

Next ==
    \/ \E identifier \in Identifiers : \E remote \in RemotesOf(identifier) :
          Sync(identifier, remote)
    \/ \E id \in ConnIds, remote_ok \in BOOLEAN : DeleteConnection(id, remote_ok)
    \/ \E data \in CallbackData : \E remote \in CallbackRemotes : SuccessCallback(data, remote)
    \/ \E data \in StatusData : FailureCallback(data)
    \/ \E data \in StatusData : DestroyCallback(data)

Spec == Init /\ [][Next]_vars

(***************************************************************************)
(* Properties.  A property of the sync run is stated for every run the     *)
(* model can start from a reachable store: every identifier and every      *)
(* remote of RemotesOf.                                                    *)
(***************************************************************************)
SyncInputs == UNION {{<<i, r>> : r \in RemotesOf(i)} : i \in Identifiers}
RunSync(s, in) == sync_customer_data(s, in[1], WorldOf(in[2]))

\* C1: running the sync twice in a row for the same customer against an
\* unchanged remote leaves the number of Connection, Account and Transaction
\* rows after the second run equal to those after the first run, and the
\* second run returns whenever the first one did.
C1_Idempotence ==
    CanStep =>
        \A in \in SyncInputs :
            \A r1 \in {RunSync(store, in)} :
                \A r2 \in {RunSync(r1.store, in)} :
                    /\ RowCount(r2.store) = RowCount(r1.store)
                    /\ r2.raised = r1.raised

\* A run that upserted connections, accounts and transactions and added no row.
C1_Witness ==
    /\ lastOp.kind = "sync"
    /\ ~lastOp.run.raised
    /\ lastOp.run.result.connections_synced > 0
    /\ lastOp.run.result.accounts_synced > 0
    /\ lastOp.run.result.transactions_synced > 0
    /\ lastOp.created = 0

(***************************************************************************)
(* Views of the store by remote id, for comparing stores whose surrogate   *)
(* ids differ.  A parent that does not exist shows as remote id 0.         *)
(***************************************************************************)
Range(seq) == {seq[i] : i \in DOMAIN seq}

ParentConnection(s, account) ==
    LET ps == {c \in s.connections : c.id = account.connection_id}
    IN IF ps = {} THEN 0 ELSE (CHOOSE c \in ps : TRUE).saltedge_connection_id

ParentAccount(s, transaction) ==
    LET ps == {a \in s.accounts : a.id = transaction.account_id}
    IN IF ps = {} THEN 0 ELSE (CHOOSE a \in ps : TRUE).saltedge_account_id

AccountView(s) ==
    {[rid |-> a.saltedge_account_id, balance |-> a.balance,
      connection |-> ParentConnection(s, a)] : a \in s.accounts}

TransactionView(s) ==
    {[rid |-> t.saltedge_transaction_id, amount |-> t.amount,
      account |-> ParentAccount(s, t)] : t \in s.transactions}

\* The remote ids listed under connection c, and under its accounts.
ListedAccounts(world, c) == {ad.id : ad \in Range(world.accounts[c].data)}
ListedTransactions(world, c) ==
    UNION {{td.id : td \in Range(world.transactions[a].data)} : a \in ListedAccounts(world, c)}

\* The part of the store that belongs to the sub-tree the remote lists under c.
SubTree(s, world, c) ==
    [accounts |-> {v \in AccountView(s) : v.rid \in ListedAccounts(world, c)},
     transactions |-> {v \in TransactionView(s) : v.rid \in ListedTransactions(world, c)}]

\* Every account the remote lists under c, and every transaction under these,
\* has a row with the payload's values; the accounts are owned by c.
FullySynced(s, world, c) ==
    /\ \A ad \in Range(world.accounts[c].data) :
          /\ [rid |-> ad.id, balance |-> ad.balance, connection |-> c] \in AccountView(s)
          /\ \A td \in Range(world.transactions[ad.id].data) :
                \E v \in TransactionView(s) : v.rid = td.id /\ v.amount = td.amount

\* Some account the remote lists under c is stored under another connection.
StoredElsewhere(s, world, c) ==
    \E v \in AccountView(s) : v.rid \in ListedAccounts(world, c) /\ v.connection # c

C3_ForeignKeys ==
    /\ \A a \in store.accounts : \E c \in store.connections : c.id = a.connection_id
    /\ \A t \in store.transactions : \E a \in store.accounts : a.id = t.account_id

\* A delete_connection call that removed a connection with its accounts and
\* transactions and left another connection's sub-tree in the store.
C3_Witness ==
    /\ lastOp.kind = "delete"
    /\ ~lastOp.run.raised
    /\ lastOp.created < 0 - 1
    /\ store.accounts # {}
    /\ store.transactions # {}

KnownCustomer(in) == HasFirst(CustomerByIdentifier(in[1]))

\* Statement of C4 as written: a sync run raises only when no local Customer
\* has the given identifier.
C4_RaisesOnlyForUnknownCustomer ==
    (lastOp.kind = "sync" /\ lastOp.run.raised)
        => ~HasFirst(CustomerByIdentifier(lastOp.arg))

\* C4: a sync run raises exactly when no local Customer has the given
\* identifier or the final commit fails; a failure of a remote fetch or of
\* the upsert of one entity is reported in the errors list of the returned
\* result and is not raised.
C4_RaisesOnlyForUnknownCustomerOrCommit ==
    CanStep =>
        \A in \in SyncInputs :
            \A r \in {RunSync(store, in)} :
                /\ r.raised = (~KnownCustomer(in) \/ WorldOf(in[2]).commit_fails)
                /\ (KnownCustomer(in) /\ in[2].f.kind \notin {"none", "commit"})
                      => r.result.errors # <<>>

\* A run for a known customer whose list_connections call failed: it returned
\* with the failure in errors.
C4_Witness ==
    /\ lastOp.kind = "sync"
    /\ lastOp.fault.kind = "list_connections"
    /\ ~lastOp.run.raised
    /\ lastOp.run.result.errors = <<ErrorConnections>>
    /\ store # EmptyStore

\* Statement of C5 as written: a run in which an exception occurred committed
\* none of its writes.
C5_ExceptionRollsBackEverything ==
    (lastOp.kind = "sync"
        /\ lastOp.fault.kind \in {"timestamp", "list_accounts", "list_transactions"})
        => (lastOp.run.raised /\ lastOp.created = 0)

RemoteIds(s) ==
    [connections |-> {c.saltedge_connection_id : c \in s.connections},
     accounts |-> {a.saltedge_account_id : a \in s.accounts},
     transactions |-> {t.saltedge_transaction_id : t \in s.transactions}]

\* C5: a run's writes are committed once, at the end.  A run that raises
\* (unknown customer, failed commit) leaves the store as it was; a run that
\* returns has committed every row it wrote, including those of a connection
\* sub-tree whose sync stopped at a failure caught during the run.
C5_CommitOnceRollbackOnRaise ==
    CanStep =>
        \A in \in SyncInputs :
            \A r \in {RunSync(store, in)} :
                /\ r.raised => r.store = store
                /\ ~r.raised =>
                      /\ r.up_conns \subseteq RemoteIds(r.store).connections
                      /\ r.up_accts \subseteq RemoteIds(r.store).accounts
                      /\ r.up_txs \subseteq RemoteIds(r.store).transactions

\* A run whose commit failed: it raised and the rows of an earlier run are
\* all that the store holds.
C5_Witness ==
    /\ lastOp.kind = "sync"
    /\ lastOp.fault.kind = "commit"
    /\ lastOp.run.raised
    /\ lastOp.created = 0
    /\ store.transactions # {}
    /\ Cardinality(store.connections) < NumConns

\* Statement of C6 as written: when the transaction fetch of one account of a
\* connection throws, the run records the error and every other account the
\* remote lists under that connection, with its transactions, has its rows
\* after the run.
C6_AccountIsolation ==
    CanStep =>
        \A in \in {x \in SyncInputs : x[2].f.kind = "list_transactions" /\ KnownCustomer(x)} :
            \A r \in {RunSync(store, in)} :
                LET world == WorldOf(in[2])
                    c == in[2].lay.own[in[2].f.id]
                    siblings == {ad \in Range(world.accounts[c].data) : ad.id # in[2].f.id}
                IN ~StoredElsewhere(store, world, c) =>
                      /\ ~r.raised
                      /\ r.result.errors # <<>>
                      /\ \A ad \in siblings :
                            /\ ad.id \in RemoteIds(r.store).accounts
                            /\ \A td \in Range(world.transactions[ad.id].data) :
                                  td.id \in RemoteIds(r.store).transactions

\* The value a payload timestamp gives the column when it overwrites it.
StampValue(ts) == IF ts = NoVal THEN NoVal ELSE FromIsoFormat(ReplaceZ(ts))

\* Statement of C7 as written: after a run that returns without errors, the
\* status and last_success_at of every synced Connection, the balance of every
\* synced Account and the amount of every synced Transaction equal the values
\* of the run's payload, also where the payload has no value.
C7_OverwriteFromPayload ==
    CanStep =>
        \A in \in {x \in SyncInputs : x[2].f = NoFault /\ KnownCustomer(x)} :
            \A r \in {RunSync(store, in)} :
                LET world == WorldOf(in[2])
                IN (~r.raised /\ r.result.errors = <<>>) =>
                      \A cd \in Range(world.connections.data) :
                         /\ \E row \in r.store.connections :
                               /\ row.saltedge_connection_id = cd.id
                               /\ row.status = cd.status
                               /\ row.last_success_at = StampValue(cd.last_success_at)
                         /\ \A ad \in Range(world.accounts[cd.id].data) :
                               /\ \E row \in r.store.accounts :
                                     /\ row.saltedge_account_id = ad.id
                                     /\ row.balance = ad.balance
                               /\ \A td \in Range(world.transactions[ad.id].data) :
                                     \E row \in r.store.transactions :
                                        /\ row.saltedge_transaction_id = td.id
                                        /\ row.amount = td.amount

\* Statement of C8 as written: after a run against a remote without failures,
\* every account the remote lists under a listed connection c has a row owned
\* by c, and its transactions have their rows with the payload's values.
C8_AccountKeyedByConnection ==
    CanStep =>
        \A in \in {x \in SyncInputs : x[2].f = NoFault /\ KnownCustomer(x)} :
            \A r \in {RunSync(store, in)} :
                \A c \in 1..in[2].lay.listed :
                    FullySynced(r.store, WorldOf(in[2]), c)

\* Statement of C9 as written: in every run that returns, the three counters
\* equal the numbers of connections, accounts and transactions the run
\* upserted and committed.
C9_CountersAreUpsertCounts ==
    CanStep =>
        \A in \in {x \in SyncInputs : KnownCustomer(x)} :
            \A r \in {RunSync(store, in)} :
                ~r.raised =>
                    /\ r.result.connections_synced = Cardinality(r.up_conns)
                    /\ r.result.accounts_synced = Cardinality(r.up_accts)
                    /\ r.result.transactions_synced = Cardinality(r.up_txs)

\* Every row of before has a row of the same id and remote id in after.
Kept(before, after) ==
    /\ \A r \in before.connections : \E q \in after.connections :
          q.id = r.id /\ q.saltedge_connection_id = r.saltedge_connection_id
    /\ \A r \in before.accounts : \E q \in after.accounts :
          q.id = r.id /\ q.saltedge_account_id = r.saltedge_account_id
    /\ \A r \in before.transactions : \E q \in after.transactions :
          q.id = r.id /\ q.saltedge_transaction_id = r.saltedge_transaction_id

\* The connection of the given id is gone from after, with its accounts and
\* their transactions, and nothing else is.
DeletedWithSubTree(before, after, connection_id) ==
    \E c \in before.connections :
        /\ c.id = connection_id
        /\ after.connections = before.connections \ {c}
        /\ after.accounts = {a \in before.accounts : a.connection_id # c.id}
        /\ after.transactions =
              {t \in before.transactions :
                  \A a \in before.accounts : a.id = t.account_id => a.connection_id # c.id}

\* C10: a sync run or a callback (success, failure, destroy) leaves every
\* Connection, Account and Transaction row in the store; only a successful
\* delete_connection removes rows, and it removes the connection with all its
\* accounts and their transactions and nothing else.
C10_OnlyDeleteRemoves ==
    [][IF lastOp'.kind = "delete" /\ ~lastOp'.run.raised
       THEN DeletedWithSubTree(store, store', lastOp'.arg)
       ELSE Kept(store, store')]_vars

\* A destroy callback for a stored connection that has an account with a
\* transaction: the connection is marked removed and the rows are there.
C10_Witness ==
    /\ lastOp.kind = "destroy"
    /\ \E c \in store.connections :
          /\ c.saltedge_connection_id = lastOp.arg.connection_id
          /\ c.status = "removed"
          /\ \E a \in store.accounts :
                /\ a.connection_id = c.id
                /\ \E t \in store.transactions : t.account_id = a.id

(***************************************************************************)
(* Sync runs in transactions of their own.  A run reads the store as       *)
(* committed when it begins, works on its session's view, and its commit   *)
(* is checked by the storage layer against the unique remote-id columns    *)
(* (saltedge_connection_id, saltedge_account_id, saltedge_transaction_id). *)
(***************************************************************************)
\* How many sync runs of one customer are in flight together, and how many
\* sequential operations may precede them.
NumRuns == 2
MaxSetupOps == 1

Runs == 1..NumRuns
Tables == {"connections", "accounts", "transactions"}

\* The unique column of each table.
RemoteKey(table) ==
    IF table = "connections" THEN "saltedge_connection_id"
    ELSE IF table = "accounts" THEN "saltedge_account_id"
    ELSE "saltedge_transaction_id"

\* Rows the session added to a table since it read base.
Inserted(base, view, table) ==
    {r \in view[table] : \A b \in base[table] : b.id # r.id}

\* Rows the session added or changed.
Written(base, view, table) == view[table] \ base[table]

\* IntegrityError: a row the session inserts carries a remote id that a row
\* committed meanwhile already has.
UniqueViolation(committed, base, view) ==
    \E table \in Tables : \E r \in Inserted(base, view, table) :
        \E q \in committed[table] : q[RemoteKey(table)] = r[RemoteKey(table)]

\* The session's rows written over the committed ones of the same id.
Merge(committed, base, view) ==
    [table \in Tables |->
        {q \in committed[table] : \A r \in Written(base, view, table) : r.id # q.id}
            \cup Written(base, view, table)]

\* Variant: the storage layer accepts a second row with the same remote id.
CommitSession_no_unique_check(committed, base, view, raised) ==
    IF raised THEN [store |-> committed, raised |-> TRUE]
    ELSE [store |->
             [table \in Tables |->
                 committed[table] \cup
                 {[r EXCEPT !.id = r.id + Cardinality(committed[table])] :
                     r \in Inserted(base, view, table)}],
          raised |-> FALSE]

\* db.commit() of a run that began on base: a run that raised has rolled
\* back; a unique violation fails the commit, which rolls back and raises.
CommitSession(committed, base, view, raised) ==
    IF raised \/ UniqueViolation(committed, base, view)
    THEN [store |-> committed, raised |-> TRUE]
    ELSE [store |-> Merge(committed, base, view), raised |-> FALSE]

IdleRun == [state |-> "idle", base |-> EmptyStore, view |-> EmptyStore, raised |-> FALSE]

\* The runs in flight sync one customer against one remote: alice against a
\* remote of profile p1, or an identifier without Customer.
ConcInputs ==
    {in \in SyncInputs : in[1] # "bob" /\ in[2].p = "p1"}

\* A run begins: it reads the committed store and does its upserts in its
\* session.
Working(base, r) ==
    [state |-> "working", base |-> base, view |-> r.store, raised |-> r.raised]

RunBegins(p, in) ==
    /\ ops <= MaxSetupOps
    /\ \/ /\ conc.phase = "idle"
          /\ conc' = [phase |-> "running", in |-> in, start |-> store,
                      runs |-> [q \in Runs |->
                                  IF q = p THEN Working(store, RunSync(store, in))
                                  ELSE IdleRun]]
       \/ /\ conc.phase = "running"
          /\ conc.in = in
          /\ conc.runs[p].state = "idle"
          /\ conc' = [conc EXCEPT !.runs[p] = Working(store, RunSync(store, in))]
    /\ UNCHANGED <<store, lastOp, ops, secret, queue, response, probe>>

Finished(done) == [IdleRun EXCEPT !.state = "done", !.raised = done.raised]

\* A run commits, or fails to.
RunCommits(p) ==
    /\ conc.phase = "running"
    /\ conc.runs[p].state = "working"
    /\ \E done \in {CommitSession(store, conc.runs[p].base, conc.runs[p].view,
                                  conc.runs[p].raised)} :
          /\ store' = done.store
          /\ conc' = [conc EXCEPT !.runs[p] = Finished(done)]
    /\ UNCHANGED <<lastOp, ops, secret, queue, response, probe>>

\* Sequential syncs fill the store before the runs in flight begin.
SetupSync(identifier, remote) ==
    /\ conc.phase = "idle"
    /\ ops < MaxSetupOps
    /\ Sync(identifier, remote)

NextConcurrent ==
    \/ \E identifier \in Identifiers : \E remote \in RemotesOf(identifier) :
          SetupSync(identifier, remote)
    \/ \E p \in Runs : \E in \in ConcInputs : RunBegins(p, in)
    \/ \E p \in Runs : RunCommits(p)

SpecConcurrent == Init /\ [][NextConcurrent]_vars

NoDuplicateRemoteIds(s) ==
    \A table \in Tables : \A r, q \in s[table] :
        r[RemoteKey(table)] = q[RemoteKey(table)] => r = q

ConnectionView(s) ==
    {[rid |-> c.saltedge_connection_id, status |-> c.status,
      last_success_at |-> c.last_success_at, customer_id |-> c.customer_id] :
        c \in s.connections}

StoreView(s) ==
    [connections |-> ConnectionView(s), accounts |-> AccountView(s),
     transactions |-> TransactionView(s)]

AllRunsDone == conc.phase = "running" /\ \A p \in Runs : conc.runs[p].state = "done"

\* C11: under every interleaving of the begin and commit steps of the sync
\* runs of one customer against one remote, the committed store never holds
\* two rows with the same remote id in one table, and once all runs have
\* finished the store holds the rows (remote ids, values and parents) that a
\* single run from the store they started on would have produced.
C11_ConcurrentRuns ==
    /\ NoDuplicateRemoteIds(store)
    /\ AllRunsDone =>
          \A single \in {RunSync(conc.start, conc.in)} :
              StoreView(store) = StoreView(single.store)

\* Both runs began on the same store, one committed its rows and the commit
\* of the other failed.
C11_Witness ==
    /\ AllRunsDone
    /\ \E p, q \in Runs : ~conc.runs[p].raised /\ conc.runs[q].raised
    /\ HasFirst(CustomerByIdentifier(conc.in[1]))
    /\ conc.in[2].f.kind = "none"
    /\ store.transactions # {}
    /\ conc.start = EmptyStore

(***************************************************************************)
(* api/callbacks.py: the webhook endpoints.  A request carries the         *)
(* Signature and Expires-at headers and a raw body; an accepted request    *)
(* is acknowledged and its processing is scheduled as a background task.   *)
(***************************************************************************)
\* The endpoints, by the path they are mounted on.
PathSuccess == "/api/v1/callbacks/ais/success"
PathFailure == "/api/v1/callbacks/ais/failure"
PathNotify == "/api/v1/callbacks/ais/notify"
PathDestroy == "/api/v1/callbacks/ais/destroy"
PathProviderChanges == "/api/v1/callbacks/ais/provider-changes"
PathPisSuccess == "/api/v1/callbacks/pis/success"
PathPisFailure == "/api/v1/callbacks/pis/failure"
PathPisNotify == "/api/v1/callbacks/pis/notify"
PathLegacy == "/api/v1/callbacks/salt-edge"

Endpoints ==
    {PathSuccess, PathFailure, PathNotify, PathDestroy, PathProviderChanges,
     PathPisSuccess, PathPisFailure, PathPisNotify, PathLegacy}

\* The background task each endpoint schedules.
TaskOf(endpoint) ==
    IF endpoint = PathSuccess THEN "process_success_callback"
    ELSE IF endpoint = PathFailure THEN "process_failure_callback"
    ELSE IF endpoint = PathNotify THEN "process_notify_callback"
    ELSE IF endpoint = PathDestroy THEN "process_destroy_callback"
    ELSE IF endpoint = PathProviderChanges THEN "process_provider_changes_callback"
    ELSE IF endpoint = PathPisSuccess THEN "process_payment_success_callback"
    ELSE IF endpoint = PathPisFailure THEN "process_payment_failure_callback"
    ELSE IF endpoint = PathPisNotify THEN "process_payment_notify_callback"
    ELSE "process_legacy_callback"

\* The secret key of the deployment and a key it does not have.
SecretKey == "key_configured"
OtherKey == "key_other"
ExpiresAt == "expires_1"

\* settings.SALTEDGE_SECRET_KEY
ConfiguredKey(secret_set) == IF secret_set THEN SecretKey ELSE NoVal

\* What a JSON body parses to: an array, or an object whose 'data' is
\* missing, not an object, or an object with the keys the handlers read
\* (connection_id 0 and customer_id NoVal are missing keys).
Stages == {"finish", "error", "notify", "unknown"}
NoData == [connection_id |-> 0, customer_id |-> NoVal]
JsonArray ==
    [shape |-> "array", data_shape |-> "missing", data |-> NoData,
     stage |-> "unknown", error_key |-> FALSE]
JsonObjects ==
    [shape : {"object"}, data_shape : {"object"}, data : CallbackData,
     stage : {"unknown"}, error_key : {FALSE}]
    \cup [shape : {"object"}, data_shape : {"missing", "string"}, data : {NoData},
          stage : {"unknown"}, error_key : {FALSE}]
    \cup [shape : {"object"}, data_shape : {"object"},
          data : {d \in CallbackData : d.connection_id = 1 /\ d.customer_id = "cust_1"},
          stage : Stages, error_key : BOOLEAN]

\* Raw bodies: bytes that are not UTF-8, text that is not JSON, or the text
\* of a JSON value.
BodyGarbage == [syntax |-> "garbage", value |-> JsonArray]
BodyNotUtf8 == [syntax |-> "not_utf8", value |-> JsonArray]
Bodies ==
    {BodyGarbage, BodyNotUtf8} \cup [syntax : {"json"}, value : {JsonArray} \cup JsonObjects]

\* json.loads(body.decode('utf-8')): UnicodeDecodeError from decode,
\* JSONDecodeError when the text is not JSON.
JsonLoads(body) ==
    [ok |-> body.syntax = "json",
     error |-> IF body.syntax = "not_utf8" THEN "UnicodeDecodeError"
               ELSE IF body.syntax = "garbage" THEN "JSONDecodeError" ELSE NoVal,
     value |-> body.value]

\* base64(HMAC-SHA256(key, "{expires_at}|POST|{path}|{body}")): equal MACs
\* come from equal keys and equal signed strings.
Sign(key, expires_at, path, body) ==
    [key |-> key, expires_at |-> expires_at, path |-> path, body |-> body]

\* A body other than the given one.
OtherBody(body) == IF body = BodyGarbage THEN [syntax |-> "json", value |-> JsonArray]
                   ELSE BodyGarbage

\* The Signature header of a request: absent, or a MAC computed by the
\* sender over the endpoint's own path, over the legacy path, over a body
\* that was changed afterwards, or with a key that is not the deployment's.
SignatureKinds == {"absent", "endpoint_path", "legacy_path", "tampered_body", "other_key"}
SignatureHeader(kind, endpoint, body) ==
    IF kind = "absent"
    THEN [present |-> FALSE, mac |-> Sign(NoVal, NoVal, NoVal, body)]
    ELSE [present |-> TRUE,
          mac |-> IF kind = "endpoint_path" THEN Sign(SecretKey, ExpiresAt, endpoint, body)
                  ELSE IF kind = "legacy_path" THEN Sign(SecretKey, ExpiresAt, PathLegacy, body)
                  ELSE IF kind = "tampered_body"
                  THEN Sign(SecretKey, ExpiresAt, endpoint, OtherBody(body))
                  ELSE Sign(OtherKey, ExpiresAt, endpoint, body)]

\* The string to sign always names the legacy path; an exception while
\* building it (a body that does not decode) makes the result False.
verify_salt_edge_signature(request_body, signature, expires_at, key) ==
    IF key = NoVal THEN TRUE
    ELSE IF request_body.syntax = "not_utf8" THEN FALSE
    ELSE signature = Sign(key, expires_at, PathLegacy, request_body)

\* The try block of an endpoint up to the acknowledgement: signature check,
\* body parse, add_task.  Only ais/success turns JSONDecodeError into 400;
\* every other parse failure reaches the generic handler and becomes 500.
Endpoint(request, key) ==
    IF request.signature.present
       /\ ~verify_salt_edge_signature(request.body, request.signature.mac,
                                      request.expires_at, key)
    THEN [code |-> 401, parsed |-> FALSE, scheduled |-> <<>>]
    ELSE IF ~JsonLoads(request.body).ok
    THEN [code |-> IF request.endpoint = PathSuccess
                      /\ JsonLoads(request.body).error = "JSONDecodeError"
                   THEN 400 ELSE 500,
          parsed |-> FALSE, scheduled |-> <<>>]
    ELSE [code |-> 200, parsed |-> TRUE,
          scheduled |-> <<[name |-> TaskOf(request.endpoint),
                           callback_data |-> JsonLoads(request.body).value]>>]

(***************************************************************************)
(* api/callbacks.py: the background tasks.  Each process_* function wraps  *)
(* its body in try/except Exception; an attempt is what the body did.      *)
(***************************************************************************)
\* callback_data.get('data', {}) and data.get(...) raise AttributeError when
\* the payload or its 'data' is not an object.
Unreadable(callback_data) ==
    callback_data.shape # "object" \/ callback_data.data_shape = "string"

PayloadOf(callback_data) ==
    IF callback_data.data_shape = "missing" THEN NoData ELSE callback_data.data

Returns(db) == [store |-> db, raised |-> FALSE]
Raises(db) == [store |-> db, raised |-> TRUE]

\* Variant: the except clause re-raises.
Contain_reraise(committed, attempt) ==
    [store |-> attempt.store, escaped |-> attempt.raised]

\* except Exception as e: print(...)
Contain(committed, attempt) ==
    [store |-> IF attempt.raised THEN committed ELSE attempt.store, escaped |-> FALSE]

\* Variant: the sync service is built without looking at the credentials.
HandleSuccess_without_credentials(committed, data, world, key) ==
    handle_success_callback(committed, data, world)

\* SyncService() builds a SaltEdgeClient, whose constructor raises ValueError
\* without credentials; handle_success_callback catches it and rolls back.
HandleSuccess(committed, data, world, key) ==
    IF key = NoVal THEN committed ELSE handle_success_callback(committed, data, world)

TrySuccess(committed, callback_data, world, key) ==
    IF Unreadable(callback_data) THEN Raises(committed)
    ELSE IF PayloadOf(callback_data).connection_id # 0
            /\ PayloadOf(callback_data).customer_id # NoVal
    THEN Returns(HandleSuccess(committed, PayloadOf(callback_data), world, key))
    ELSE Returns(committed)

process_success_callback(committed, callback_data, world, key) ==
    Contain(committed, TrySuccess(committed, callback_data, world, key))

TryFailure(committed, callback_data) ==
    IF Unreadable(callback_data) THEN Raises(committed)
    ELSE Returns(handle_error_callback(committed, PayloadOf(callback_data)))

process_failure_callback(committed, callback_data) ==
    Contain(committed, TryFailure(committed, callback_data))

TryDestroy(committed, callback_data) ==
    IF Unreadable(callback_data) THEN Raises(committed)
    ELSE Returns(handle_destroy_callback(committed, PayloadOf(callback_data)))

process_destroy_callback(committed, callback_data) ==
    Contain(committed, TryDestroy(committed, callback_data))

\* Variant: the advisory processors write the status the failure handler
\* writes.
TryLogOnly_writes_status(committed, callback_data) ==
    IF Unreadable(callback_data) THEN Raises(committed)
    ELSE Returns(handle_error_callback(committed, PayloadOf(callback_data)))

\* handle_notify_callback and handle_provider_changes_callback only log; the
\* payment processors only read the payload.
TryLogOnly(committed, callback_data) ==
    IF Unreadable(callback_data) THEN Raises(committed) ELSE Returns(committed)

process_notify_callback(committed, callback_data) ==
    Contain(committed, TryLogOnly(committed, callback_data))

\* What a routed processor hands back to process_legacy_callback.
Routed(done) == [store |-> done.store, raised |-> done.escaped]

\* Variant: the error branch is tested before the finish branch.
LegacyRoute_error_first(callback_data) ==
    IF callback_data.stage = "error" \/ callback_data.error_key THEN "failure"
    ELSE IF callback_data.stage = "finish" THEN "success"
    ELSE IF callback_data.stage = "notify" THEN "notify"
    ELSE NoVal

\* The if/elif chain on data['stage'] and 'error' in data.
LegacyRoute(callback_data) ==
    IF callback_data.stage = "finish" THEN "success"
    ELSE IF callback_data.stage = "error" \/ callback_data.error_key THEN "failure"
    ELSE IF callback_data.stage = "notify" THEN "notify"
    ELSE NoVal

TryLegacy(committed, callback_data, world, key) ==
    IF Unreadable(callback_data) THEN Raises(committed)
    ELSE IF LegacyRoute(callback_data) = "success"
    THEN Routed(process_success_callback(committed, callback_data, world, key))
    ELSE IF LegacyRoute(callback_data) = "failure"
    THEN Routed(process_failure_callback(committed, callback_data))
    ELSE IF LegacyRoute(callback_data) = "notify"
    THEN Routed(process_notify_callback(committed, callback_data))
    ELSE Returns(committed)

process_legacy_callback(committed, callback_data, world, key) ==
    Contain(committed, TryLegacy(committed, callback_data, world, key))

\* The scheduled task, run by the server after the response went out.
RunTask(committed, task, world, key) ==
    IF task.name = "process_success_callback"
    THEN process_success_callback(committed, task.callback_data, world, key)
    ELSE IF task.name = "process_failure_callback"
    THEN process_failure_callback(committed, task.callback_data)
    ELSE IF task.name = "process_destroy_callback"
    THEN process_destroy_callback(committed, task.callback_data)
    ELSE IF task.name = "process_legacy_callback"
    THEN process_legacy_callback(committed, task.callback_data, world, key)
    ELSE process_notify_callback(committed, task.callback_data)

\* Variant: add_task runs the task before the endpoint returns.
add_task_runs_inline(committed, pending, scheduled) ==
    [store |-> IF scheduled = <<>> THEN committed
               ELSE RunTask(committed, Head(scheduled), WorldOf(NoRemote), SecretKey).store,
     queue |-> pending]

\* background_tasks.add_task(process_x, callback_data, db)
add_task(committed, pending, scheduled) ==
    [store |-> committed, queue |-> pending \o scheduled]

\* The requests a sender may post.  Unsigned requests carry every body (the
\* stage keys are read by the legacy endpoint only); signed requests carry
\* a body that does not parse, an array, or one object.
MkRequest(endpoint, body, kind) ==
    [endpoint |-> endpoint, expires_at |-> ExpiresAt, body |-> body,
     signature |-> SignatureHeader(kind, endpoint, body)]
PlainBodies == {b \in Bodies : b.value.stage = "unknown" /\ ~b.value.error_key}
SignedBodies ==
    {b \in PlainBodies :
        \/ b.syntax # "json"
        \/ b.value.shape = "array"
        \/ /\ b.value.data_shape = "object"
           /\ b.value.data.connection_id = 1
           /\ b.value.data.customer_id = "cust_1"}
Requests ==
    {MkRequest(e, b, "absent") : e \in Endpoints \ {PathLegacy}, b \in PlainBodies}
    \cup {MkRequest(PathLegacy, b, "absent") : b \in Bodies}
    \cup {MkRequest(e, b, k) : e \in Endpoints, b \in SignedBodies,
                               k \in SignatureKinds \ {"absent"}}

\* POST /callbacks/...: one request is answered at a time, and the next one
\* arrives after the task of the previous one has run.
WebhookRequest(request) ==
    /\ queue = <<>>
    /\ CanStep
    /\ ops' = ops + 1
    /\ \E answer \in {Endpoint(request, ConfiguredKey(secret))} :
       \E sched \in {add_task(store, queue, answer.scheduled)} :
          /\ store' = sched.store
          /\ queue' = sched.queue
          /\ response' = [code |-> answer.code, endpoint |-> request.endpoint]
          /\ lastOp' = Op("request", request, NoFault, NoRun, sched.store)
    /\ UNCHANGED <<conc, secret, probe>>

\* The remote tree a task may see: only the success processors call the
\* aggregator.
TaskRemotes(task) ==
    IF task.name \in {"process_success_callback", "process_legacy_callback"}
    THEN CallbackRemotes ELSE {NoRemote}

PendingRemotes == IF queue = <<>> THEN {} ELSE TaskRemotes(Head(queue))

\* The server runs the task scheduled by the last request.
BackgroundTask(remote) ==
    /\ queue # <<>>
    /\ remote \in PendingRemotes
    /\ \E done \in {RunTask(store, Head(queue), WorldOf(remote), ConfiguredKey(secret))} :
          /\ store' = done.store
          /\ lastOp' = Op("task", Head(queue), remote.f,
                          [NoRun EXCEPT !.raised = done.escaped], done.store)
    /\ queue' = Tail(queue)
    /\ UNCHANGED <<ops, conc, secret, response, probe>>

\* Rows are there before a callback arrives: a sync against the fault-free
\* home tree, which needs the credentials.
SetupRemotes == {r \in Remotes : r.lay = HomeLayout(NumConns) /\ r.f = NoFault}
WebhookSetup(identifier, remote) ==
    /\ secret
    /\ queue = <<>>
    /\ lastOp.kind \in {"init", "sync"}
    /\ Sync(identifier, remote)

\* The service is restarted without SALTEDGE_SECRET_KEY in its environment;
\* the rows synced before stay in the database.
RestartWithoutSecret ==
    /\ secret
    /\ queue = <<>>
    /\ lastOp.kind = "sync"
    /\ secret' = FALSE
    /\ UNCHANGED <<store, lastOp, ops, conc, queue, response, probe>>

\* The deployment has the secret key configured or not.
InitWebhook ==
    /\ store = EmptyStore
    /\ lastOp = [kind |-> "init", arg |-> NoVal, fault |-> NoFault, run |-> NoRun,
                 created |-> 0]
    /\ ops = 0
    /\ conc = NoConc
    /\ secret \in BOOLEAN
    /\ queue = <<>>
    /\ response = NoResponse
    /\ probe = NoProbe

NextWebhook ==
    \/ \E identifier \in {"alice", "bob"} : \E remote \in SetupRemotes :
          WebhookSetup(identifier, remote)
    \/ RestartWithoutSecret
    \/ \E request \in Requests : WebhookRequest(request)
    \/ \E remote \in CallbackRemotes \cup {NoRemote} : BackgroundTask(remote)

SpecWebhook == InitWebhook /\ [][NextWebhook]_vars

(***************************************************************************)
(* Properties of the webhook endpoints.                                    *)
(***************************************************************************)
\* The last step answered a request.
Answered == lastOp.kind = "request"

\* The MAC Salt Edge computes for a request: over the Expires-at header, the
\* path of the receiving endpoint and the raw body.
ExpectedMac(request) ==
    Sign(SecretKey, request.expires_at, request.endpoint, request.body)

\* C12: with a secret key configured, a request whose Signature header is
\* not the HMAC of its Expires-at header, its own path and its raw body is
\* answered 401, nothing is scheduled and the store is unchanged.
C12_MismatchedSignatureRejected ==
    (/\ Answered
     /\ secret
     /\ lastOp.arg.signature.present
     /\ lastOp.arg.signature.mac # ExpectedMac(lastOp.arg))
    => (response.code = 401 /\ queue = <<>> /\ lastOp.created = 0)

\* C13: a request without Signature header is acknowledged and scheduled
\* only when no secret key is configured; with a secret key it is rejected
\* and schedules nothing.
C13_UnsignedOnlyWithoutSecret ==
    (Answered /\ ~lastOp.arg.signature.present /\ secret)
    => (response.code = 401 /\ queue = <<>>)

\* C14: with a secret key configured, a signed request passes the signature
\* check exactly when its MAC is the HMAC over the path of the endpoint that
\* received it.
C14_SignedOverOwnPath ==
    (Answered /\ secret /\ lastOp.arg.signature.present)
    => (response.code # 401 <=> lastOp.arg.signature.mac = ExpectedMac(lastOp.arg))

\* C15: on every endpoint a request that passes the signature check and
\* whose body is not parsable JSON is answered 400 and schedules nothing.
C15_UnparsableBodyIs400 ==
    (Answered /\ response.code # 401 /\ ~JsonLoads(lastOp.arg.body).ok)
    => (response.code = 400 /\ queue = <<>>)

\* The step answers a request / runs a scheduled task.
RequestStep == ops' = ops + 1 /\ lastOp'.kind = "request"
TaskStep == queue # <<>> /\ queue' = Tail(queue) /\ lastOp'.kind = "task"

\* C16: the step that answers a request leaves the store as it is; it
\* acknowledges with 200 only after the signature check and the body parse
\* passed, and then the handler is scheduled, not run.  The store changes
\* through a callback only in a later step that runs the scheduled task,
\* after the 200 was produced.
C16_AckThenMutate ==
    [][/\ RequestStep =>
            /\ store' = store
            /\ response'.code = 200 =>
                  /\ ~lastOp'.arg.signature.present
                     \/ verify_salt_edge_signature(lastOp'.arg.body,
                            lastOp'.arg.signature.mac, lastOp'.arg.expires_at,
                            ConfiguredKey(secret))
                  /\ JsonLoads(lastOp'.arg.body).ok
                  /\ queue = <<>>
                  /\ queue' = <<[name |-> TaskOf(lastOp'.arg.endpoint),
                                 callback_data |-> JsonLoads(lastOp'.arg.body).value]>>
            /\ response'.code # 200 => queue' = queue
       /\ (store' # store /\ lastOp'.kind # "sync") =>
            /\ TaskStep
            /\ lastOp.kind = "request"
            /\ response.code = 200
            /\ response' = response
      ]_vars

\* A failure callback was acknowledged and its task then changed a status.
C16_Witness ==
    /\ lastOp.kind = "task"
    /\ lastOp.arg.name = "process_failure_callback"
    /\ response.code = 200
    /\ queue = <<>>
    /\ \E c \in store.connections :
          c.saltedge_connection_id = lastOp.arg.callback_data.data.connection_id
          /\ c.status = "error"

\* The task ends in the success handler.
RunsSuccessHandler(task) ==
    \/ task.name = "process_success_callback"
    \/ task.name = "process_legacy_callback" /\ task.callback_data.stage = "finish"

\* Processing the task hits an error: the payload or its data is not an
\* object, or, in the success handler, fields are missing, the sync service
\* cannot be built, or the commit of the sync fails.
ProcessingFails(task, remote, key) ==
    \/ Unreadable(task.callback_data)
    \/ /\ RunsSuccessHandler(task)
       /\ \/ PayloadOf(task.callback_data).connection_id = 0
          \/ PayloadOf(task.callback_data).customer_id = NoVal
          \/ key = NoVal
          \/ remote.f.kind = "commit"

\* C17: a scheduled task stands for a request that was acknowledged with
\* 200; whatever the task meets, no exception leaves it, and when its
\* processing fails the store is as it was before the task.
C17_HandlerErrorsContained ==
    /\ queue # <<>> =>
          /\ response.code = 200
          /\ \A remote \in PendingRemotes :
             \A done \in {RunTask(store, Head(queue), WorldOf(remote), ConfiguredKey(secret))} :
                /\ ~done.escaped
                /\ ProcessingFails(Head(queue), remote, ConfiguredKey(secret))
                      => done.store = store
    /\ lastOp.kind = "task" => (response.code = 200 /\ ~lastOp.run.raised)

\* The sync run of a success callback for a known customer failed at commit
\* while rows were stored.
C17_Witness ==
    /\ lastOp.kind = "task"
    /\ response.code = 200
    /\ RunsSuccessHandler(lastOp.arg)
    /\ ~Unreadable(lastOp.arg.callback_data)
    /\ lastOp.arg.callback_data.data.customer_id = "cust_1"
    /\ lastOp.arg.callback_data.data.connection_id = 1
    /\ lastOp.fault.kind = "commit"
    /\ secret
    /\ store.transactions # {}

(***************************************************************************)
(* Properties of the callback handlers.                                    *)
(***************************************************************************)
\* The connections with the given remote id.
ConnectionsOf(db, connection_id) ==
    SessionQuery(db, "connections", "saltedge_connection_id", connection_id)

\* Success payloads with both ids whose customer and connection are stored.
SuccessCases ==
    {d \in CallbackData :
        /\ d.connection_id # 0
        /\ HasFirst(CustomerBySaltedgeId(d.customer_id))
        /\ HasFirst(ConnectionsOf(store, d.connection_id))}

\* The sync run the success handler starts for the payload's customer.
SyncOfCallback(db, data, remote) ==
    sync_customer_data(db, First(CustomerBySaltedgeId(data.customer_id)).identifier,
                       WorldOf(remote))

\* The connection is active and stamped with the time of the handler.
ActiveNow(db, connection_id) ==
    /\ HasFirst(ConnectionsOf(db, connection_id))
    /\ \A c \in ConnectionsOf(db, connection_id) :
          c.status = "active" /\ c.last_success_at = DateNow

\* The two stores differ at most in status, last_success_at and updated_at
\* of the connection with the given remote id.
SameButStatus(db, other, connection_id) ==
    /\ db.accounts = other.accounts
    /\ db.transactions = other.transactions
    /\ {[c EXCEPT !.status = NoVal, !.last_success_at = NoVal, !.updated_at = NoVal] :
           c \in db.connections}
       = {[c EXCEPT !.status = NoVal, !.last_success_at = NoVal, !.updated_at = NoVal] :
           c \in other.connections}
    /\ {c \in db.connections : c.saltedge_connection_id # connection_id}
       = {c \in other.connections : c.saltedge_connection_id # connection_id}

\* Statement of C18 as written: whenever the success handler finishes for a
\* stored customer and connection, the connection is active and stamped.
C18_SuccessMakesActive ==
    CanStep =>
        \A d \in SuccessCases : \A remote \in CallbackRemotes :
            ActiveNow(handle_success_callback(store, d, WorldOf(remote)), d.connection_id)

\* C18: for a success callback with both ids whose customer and connection
\* are stored, the handler runs the sync of that customer first; when the
\* sync returns, the store is what the sync committed except that the
\* connection is active and stamped with the current time, whatever status
\* the sync wrote; when the sync raises, the store is left as it was.
C18_SyncThenActiveUnlessRaised ==
    CanStep =>
        \A d \in SuccessCases : \A remote \in CallbackRemotes :
        \A run \in {SyncOfCallback(store, d, remote)} :
        \A after \in {handle_success_callback(store, d, WorldOf(remote))} :
            IF run.raised THEN after = store
            ELSE /\ ActiveNow(after, d.connection_id)
                 /\ SameButStatus(after, run.store, d.connection_id)

\* A success callback ran for a stored customer and connection against a
\* fault-free remote: its sync created no row, and the connection is active.
C18_Witness ==
    /\ lastOp.kind = "success"
    /\ lastOp.fault.kind = "none"
    /\ lastOp.created = 0
    /\ HasFirst(CustomerBySaltedgeId(lastOp.arg.customer_id))
    /\ store.transactions # {}
    /\ ActiveNow(store, lastOp.arg.connection_id)

\* The payload of a success callback names no stored customer, or lacks an id.
NoLocalMatch(data) ==
    \/ data.connection_id = 0
    \/ data.customer_id = NoVal
    \/ \A c \in Customers : c.saltedge_customer_id # data.customer_id

\* C19: a scheduled success callback whose customer_id matches no stored
\* customer, or that lacks connection_id or customer_id, was acknowledged
\* with 200, and its task, whatever the remote would have served to a sync,
\* changes no row and lets no exception escape.
C19_UnknownCustomerIsNoOp ==
    (/\ queue # <<>>
     /\ Head(queue).name = "process_success_callback"
     /\ ~Unreadable(Head(queue).callback_data)
     /\ NoLocalMatch(PayloadOf(Head(queue).callback_data)))
    => /\ response.code = 200
       /\ \A remote \in PendingRemotes :
          \A done \in {RunTask(store, Head(queue), WorldOf(remote), ConfiguredKey(secret))} :
             done.store = store /\ ~done.escaped

\* The task of a success callback for customer cust_9 ran with credentials
\* configured against a remote that lists connections; the store is empty.
C19_Witness ==
    /\ lastOp.kind = "task"
    /\ lastOp.arg.name = "process_success_callback"
    /\ lastOp.arg.callback_data.data_shape = "object"
    /\ lastOp.arg.callback_data.data.customer_id = "cust_9"
    /\ lastOp.arg.callback_data.data.connection_id = 1
    /\ lastOp.fault.kind = "none"
    /\ ~lastOp.run.raised
    /\ secret
    /\ response.code = 200
    /\ store = EmptyStore

\* The stores agree on every row but the connections with the given remote id.
SameElsewhere(db, other, connection_id) ==
    /\ db.accounts = other.accounts
    /\ db.transactions = other.transactions
    /\ {c \in db.connections : c.saltedge_connection_id # connection_id}
       = {c \in other.connections : c.saltedge_connection_id # connection_id}

\* Statement of C20 as written: the failure handler sets the status of the
\* matching connection to error and changes no other field and no other
\* row; without a match nothing changes.
C20_FailureWritesStatusOnly ==
    CanStep =>
        \A d \in StatusData : \A after \in {handle_error_callback(store, d)} :
            IF ~HasFirst(ConnectionsOf(store, d.connection_id)) THEN after = store
            ELSE /\ SameElsewhere(after, store, d.connection_id)
                 /\ ConnectionsOf(after, d.connection_id)
                    = {[c EXCEPT !.status = "error"] :
                          c \in ConnectionsOf(store, d.connection_id)}

\* C20: the failure handler sets the status of the connection with the given
\* remote id to error, from whatever status it had; apart from updated_at of
\* that row, which the storage layer refreshes when the status changes, no
\* other field and no other row changes and no row is added by a sync;
\* without a matching connection nothing changes.
C20_FailureWritesStatusAndUpdatedAt ==
    CanStep =>
        \A d \in StatusData : \A after \in {handle_error_callback(store, d)} :
            IF ~HasFirst(ConnectionsOf(store, d.connection_id)) THEN after = store
            ELSE /\ SameElsewhere(after, store, d.connection_id)
                 /\ ConnectionsOf(after, d.connection_id)
                    = {[c EXCEPT !.status = "error",
                                 !.updated_at = IF c.status = "error" THEN @
                                                ELSE UpdatedByStatusWrite] :
                          c \in ConnectionsOf(store, d.connection_id)}

\* A failure callback set one of two stored connections to error.
C20_Witness ==
    /\ lastOp.kind = "failure"
    /\ Cardinality(store.connections) = 2
    /\ store.transactions # {}
    /\ \E c \in store.connections :
          /\ c.saltedge_connection_id = lastOp.arg.connection_id
          /\ c.status = "error"
          /\ c.updated_at = UpdatedByStatusWrite
    /\ \E c \in store.connections :
          c.saltedge_connection_id # lastOp.arg.connection_id /\ c.status # "error"

\* Statement of C21 as written: the destroy handler sets the status of the
\* matching connection to removed, deletes nothing and changes no other
\* field of the connection, its accounts and their transactions.
C21_DestroyWritesStatusOnly ==
    CanStep =>
        \A d \in StatusData : \A after \in {handle_destroy_callback(store, d)} :
            IF ~HasFirst(ConnectionsOf(store, d.connection_id)) THEN after = store
            ELSE /\ SameElsewhere(after, store, d.connection_id)
                 /\ ConnectionsOf(after, d.connection_id)
                    = {[c EXCEPT !.status = "removed"] :
                          c \in ConnectionsOf(store, d.connection_id)}

\* C21: the destroy handler sets the status of the matching connection to
\* removed and deletes nothing: the connection, every account and every
\* transaction are still stored, with every field unchanged except the
\* connection's status and its updated_at, which the storage layer refreshes
\* when the status changes.
C21_DestroyIsSoftDelete ==
    CanStep =>
        \A d \in StatusData : \A after \in {handle_destroy_callback(store, d)} :
            IF ~HasFirst(ConnectionsOf(store, d.connection_id)) THEN after = store
            ELSE /\ SameElsewhere(after, store, d.connection_id)
                 /\ ConnectionsOf(after, d.connection_id)
                    = {[c EXCEPT !.status = "removed",
                                 !.updated_at = IF c.status = "removed" THEN @
                                                ELSE UpdatedByStatusWrite] :
                          c \in ConnectionsOf(store, d.connection_id)}

\* A destroy callback marked a connection removed whose account and
\* transaction are still stored.
C21_Witness ==
    /\ lastOp.kind = "destroy"
    /\ \E c \in store.connections :
          /\ c.saltedge_connection_id = lastOp.arg.connection_id
          /\ c.status = "removed"
          /\ \E a \in store.accounts :
                /\ a.connection_id = c.id
                /\ \E t \in store.transactions : t.account_id = a.id

\* The task is advisory: a notify, provider-changes or payment task, or a
\* legacy task that no branch of the routing sends to the success or failure
\* handler.
Advisory(task) ==
    \/ task.name \in {"process_notify_callback", "process_provider_changes_callback",
                      "process_payment_success_callback",
                      "process_payment_failure_callback",
                      "process_payment_notify_callback"}
    \/ /\ task.name = "process_legacy_callback"
       /\ task.callback_data.stage \in {"notify", "unknown"}
       /\ ~task.callback_data.error_key

\* C22: a scheduled notify, provider-changes or payment task, and a legacy
\* task whose stage is not recognized (and whose data has no error key),
\* leaves every table as it was, whatever a remote would have served to a
\* sync.
C22_AdvisoryTasksAreNoOps ==
    (queue # <<>> /\ Advisory(Head(queue)))
    => \A remote \in PendingRemotes :
       \A done \in {RunTask(store, Head(queue), WorldOf(remote), ConfiguredKey(secret))} :
          done.store = store

\* An advisory task ran for a stored connection; a legacy task with an
\* unrecognized stage ran with credentials configured.
C22_Witness ==
    /\ lastOp.kind = "task"
    /\ Advisory(lastOp.arg)
    /\ secret
    /\ store.transactions # {}
    /\ lastOp.arg.callback_data.data_shape = "object"
    /\ \E c \in store.connections :
          c.saltedge_connection_id = lastOp.arg.callback_data.data.connection_id
    /\ \/ lastOp.arg.name = "process_payment_success_callback"
       \/ lastOp.arg.name = "process_legacy_callback"
          /\ lastOp.arg.callback_data.stage = "unknown"

\* The queue holds a legacy task whose payload can be read.
LegacyPending ==
    /\ queue # <<>>
    /\ Head(queue).name = "process_legacy_callback"
    /\ ~Unreadable(Head(queue).callback_data)

\* Statement of C23 as written: every legacy payload goes to exactly one
\* handler; stage finish to success, an error key or stage error to failure
\* and stage notify to notify, for every combination of the two.
C23_LegacyRoutingAsListed ==
    LegacyPending =>
        \A cd \in {Head(queue).callback_data} :
            /\ LegacyRoute(cd) # NoVal
            /\ cd.stage = "finish" => LegacyRoute(cd) = "success"
            /\ (cd.stage = "error" \/ cd.error_key) => LegacyRoute(cd) = "failure"
            /\ cd.stage = "notify" => LegacyRoute(cd) = "notify"

\* The processor a legacy payload is handed to, by stage and error key:
\* finish wins over the error key, the error key wins over notify, and an
\* unknown stage without error key has no processor.
RoutedProcessor(stage, error_key) ==
    IF stage = "finish" THEN "process_success_callback"
    ELSE IF stage = "error" THEN "process_failure_callback"
    ELSE IF error_key THEN "process_failure_callback"
    ELSE IF stage = "notify" THEN "process_notify_callback"
    ELSE NoVal

\* C23: the legacy task does to the store exactly what the one processor
\* chosen by first match does with the same payload: the success processor
\* for stage finish (with or without error key), else the failure processor
\* for stage error or an error key, else the notify processor for stage
\* notify; with no match the payload is dropped and nothing changes.
C23_LegacyRoutingFirstMatch ==
    LegacyPending =>
        \A cd \in {Head(queue).callback_data} : \A remote \in PendingRemotes :
        \A done \in {RunTask(store, Head(queue), WorldOf(remote), ConfiguredKey(secret))} :
            IF RoutedProcessor(cd.stage, cd.error_key) = NoVal THEN done.store = store
            ELSE done.store =
                    RunTask(store, [name |-> RoutedProcessor(cd.stage, cd.error_key),
                                    callback_data |-> cd],
                            WorldOf(remote), ConfiguredKey(secret)).store

\* A legacy task with stage finish and an error key ran the success handler:
\* the stored connection of the payload is active.
C23_Witness ==
    /\ lastOp.kind = "task"
    /\ lastOp.arg.name = "process_legacy_callback"
    /\ lastOp.arg.callback_data.stage = "finish"
    /\ lastOp.arg.callback_data.error_key
    /\ lastOp.fault.kind = "none"
    /\ \E c \in store.connections :
          /\ c.saltedge_connection_id = lastOp.arg.callback_data.data.connection_id
          /\ c.status = "active"

\* C25: when the upsert of a listed connection raises because its timestamp
\* does not parse, every connection listed after it is still upserted in the
\* same run, and the accounts listed under it are stored.
C25_ConnectionUpsertFailureIsolated ==
    CanStep =>
        \A in \in SyncInputs :
            (KnownCustomer(in) /\ in[2].f.kind = "timestamp") =>
                \A run \in {RunSync(store, in)} :
                \A c \in (in[2].f.id + 1)..in[2].lay.listed :
                    /\ HasFirst(ConnectionsOf(run.store, c))
                    /\ \A a \in AcctIds :
                          in[2].lay.own[a] = c =>
                             \E row \in run.store.accounts : row.saltedge_account_id = a

\* C26: a sync run leaves the parent reference of every row it found stored
\* as it was: customer_id of a connection, connection_id of an account,
\* account_id of a transaction, also when the remote lists the row's remote
\* id under another parent.
C26_UpsertsNeverReparent ==
    CanStep =>
        \A in \in SyncInputs : \A run \in {RunSync(store, in)} :
            /\ \A old \in store.connections : \A new \in run.store.connections :
                  new.id = old.id =>
                     /\ new.customer_id = old.customer_id
                     /\ new.saltedge_connection_id = old.saltedge_connection_id
            /\ \A old \in store.accounts : \A new \in run.store.accounts :
                  new.id = old.id =>
                     /\ new.connection_id = old.connection_id
                     /\ new.saltedge_account_id = old.saltedge_account_id
            /\ \A old \in store.transactions : \A new \in run.store.transactions :
                  new.id = old.id =>
                     /\ new.account_id = old.account_id
                     /\ new.saltedge_transaction_id = old.saltedge_transaction_id

\* A run against a fault-free remote that listed one connection updated
\* account 2 under it (the transactions step then missed the account under
\* that connection and recorded an error); account 2 is still stored under
\* connection 2, with the balance of the run.
C26_Witness ==
    /\ lastOp.kind = "sync"
    /\ lastOp.fault.kind = "none"
    /\ lastOp.created = 0
    /\ lastOp.run.result.connections_synced = 1
    /\ Len(lastOp.run.result.errors) = 1
    /\ \E a \in store.accounts : \E c \in store.connections :
          /\ a.saltedge_account_id = 2
          /\ a.balance = ProfileAmount("p2")
          /\ c.id = a.connection_id
          /\ c.saltedge_connection_id = 2

\* C27: the success handler leaves status and last_success_at of the
\* connection with the payload's connection_id unchanged when that
\* connection belongs to a customer other than the one the payload names.
C27_SuccessOnlyOnOwnConnection ==
    CanStep =>
        \A d \in CallbackData : \A remote \in CallbackRemotes \cup {NoRemote} :
        \A after \in {handle_success_callback(store, d, WorldOf(remote))} :
        \A old \in ConnectionsOf(store, d.connection_id) :
            (\A u \in CustomerBySaltedgeId(d.customer_id) : old.customer_id # u.id) =>
                \E new \in after.connections :
                    /\ new.id = old.id
                    /\ new.status = old.status
                    /\ new.last_success_at = old.last_success_at

\* The task ends in the failure or the destroy handler.
RunsStatusHandler(task) ==
    \/ task.name \in {"process_failure_callback", "process_destroy_callback"}
    \/ /\ task.name = "process_legacy_callback"
       /\ ~Unreadable(task.callback_data)
       /\ LegacyRoute(task.callback_data) = "failure"

\* C28: while no secret key is configured, a scheduled task that is not a
\* failure or destroy callback leaves the store as it is, whatever the
\* remote would serve: no sync runs and no connection becomes active.
C28_NoSecretNoSync ==
    (queue # <<>> /\ ~secret) =>
        \A remote \in PendingRemotes :
        \A done \in {RunTask(store, Head(queue), WorldOf(remote), ConfiguredKey(secret))} :
            /\ ~RunsStatusHandler(Head(queue)) => done.store = store
            /\ \A new \in done.store.connections :
                  new.status = "active" => new \in store.connections
            /\ done.store.accounts = store.accounts
            /\ done.store.transactions = store.transactions

\* Without secret key the task of a success callback ran for a stored
\* customer and a stored connection, which is not active.
C28_Witness ==
    /\ ~secret
    /\ lastOp.kind = "task"
    /\ lastOp.arg.name = "process_success_callback"
    /\ lastOp.arg.callback_data.data_shape = "object"
    /\ lastOp.arg.callback_data.data.customer_id = "cust_1"
    /\ response.code = 200
    /\ store.transactions # {}
    /\ \E c \in store.connections :
          /\ c.saltedge_connection_id = lastOp.arg.callback_data.data.connection_id
          /\ c.customer_id = 1
          /\ c.status # "active"

\* C29: whatever status a stored connection has, a sync run that returns and
\* whose remote list contains the connection leaves it with the status the
\* remote reports, a failure callback leaves it with error and a destroy
\* callback with removed.
C29_NoStatusIsTerminal ==
    CanStep =>
        /\ \A in \in SyncInputs : \A run \in {RunSync(store, in)} :
           \A c \in 1..in[2].lay.listed :
              (KnownCustomer(in) /\ ~run.raised /\ in[2].f.kind # "list_connections") =>
                 \A old \in ConnectionsOf(store, c) :
                 \A new \in ConnectionsOf(run.store, c) :
                    new.status = ProfileStatus(in[2].p)
        /\ \A d \in StatusData :
              /\ \A new \in ConnectionsOf(handle_error_callback(store, d), d.connection_id) :
                    new.status = "error"
              /\ \A new \in ConnectionsOf(handle_destroy_callback(store, d), d.connection_id) :
                    new.status = "removed"

\* ---------------------------------------------------------------------------
\* Status probe (services/status_checker.py, api/status.py)
\* ---------------------------------------------------------------------------

\* Provider codes are sequences of characters, so that the lower-casing and the
\* substring test of the provider classification are computed, not assumed.
\* str.lower() on the characters the provider codes use.
LowerChar(ch) ==
    CASE ch = "F" -> "f"
      [] ch = "A" -> "a"
      [] ch = "K" -> "k"
      [] ch = "E" -> "e"
      [] OTHER -> ch
Lower(code) == [i \in 1..Len(code) |-> LowerChar(code[i])]

\* sub in s
Contains(sub, s) ==
    \E i \in 1..(Len(s) - Len(sub) + 1) : SubSeq(s, i, i + Len(sub) - 1) = sub

\* 'fake' in p.get('code', '').lower()
IsFakeProvider(p) ==
    Contains(<<"f", "a", "k", "e">>, Lower(IF p.has_code THEN p.code ELSE <<>>))

ProviderEntries ==
    {[has_code |-> TRUE, code |-> <<"f", "a", "k", "e", "x">>],
     [has_code |-> TRUE, code |-> <<"x", "F", "A", "K", "E">>],
     [has_code |-> TRUE, code |-> <<"f", "a", "x", "k", "e">>],
     [has_code |-> FALSE, code |-> <<>>]}

\* The aggregator account the probe runs against: whether the credentials are
\* accepted, the provider list it serves, whether the account may create and
\* remove customers, whether it rejects a second customer with an identifier
\* it already holds, and how many customers with the probe's fixed identifier
\* ("status_test_customer") it holds.
Aggregators ==
    [credentials : BOOLEAN, providers : SUBSET ProviderEntries,
     may_create : BOOLEAN, may_remove : BOOLEAN, unique_identifiers : BOOLEAN,
     customers : {0}]

\* What goes wrong in one run beyond the account's settings: one call raises
\* (transport or HTTP error), or is answered without a 'data' key.
NoProbeFault == [call |-> NoVal, how |-> NoVal]
ProbeFaults ==
    {NoProbeFault}
    \cup {[call |-> c, how |-> "raises"] :
            c \in {"list_countries", "list_providers", "create_customer", "remove_customer"}}
    \cup {[call |-> c, how |-> "no_data"] : c \in {"list_countries", "list_providers"}}

\* _make_request raises on a transport error and on every HTTP error status
\* (raise_for_status); rejected credentials are an HTTP error on every call.
RequestFails(agg, fault, call) ==
    ~agg.credentials \/ fault = [call |-> call, how |-> "raises"]
Answer(agg, fault, call) ==
    IF RequestFails(agg, fault, call) THEN "raises"
    ELSE IF fault = [call |-> call, how |-> "no_data"] THEN "no_data"
    ELSE "data"

list_countries(agg, fault) == Answer(agg, fault, "list_countries")
list_providers(agg, fault) == Answer(agg, fault, "list_providers")
create_customer(agg, fault) ==
    IF \/ RequestFails(agg, fault, "create_customer")
       \/ ~agg.may_create
       \/ (agg.unique_identifiers /\ agg.customers > 0)
    THEN [answer |-> "raises", agg |-> agg]
    ELSE [answer |-> "data", agg |-> [agg EXCEPT !.customers = @ + 1]]
remove_customer(agg, fault) ==
    IF RequestFails(agg, fault, "remove_customer") \/ ~agg.may_remove
    THEN [answer |-> "raises", agg |-> agg]
    ELSE [answer |-> "data", agg |-> [agg EXCEPT !.customers = @ - 1]]

StatusInfo ==
    [api_accessible |-> FALSE, can_create_customers |-> FALSE,
     can_list_providers |-> FALSE, can_access_real_providers |-> FALSE,
     fake_providers_available |-> FALSE, estimated_status |-> "unknown",
     recommendations |-> <<>>, api_error |-> FALSE, provider_error |-> FALSE,
     customer_error |-> FALSE, fake_providers_count |-> 0, real_providers_count |-> 0]

_estimate_status(info) ==
    IF ~info.api_accessible THEN "invalid_credentials"
    ELSE IF ~info.can_create_customers THEN "pending"
    ELSE IF info.fake_providers_available /\ ~info.can_access_real_providers THEN "test"
    ELSE IF info.can_access_real_providers THEN "live"
    ELSE "unknown"

\* One list of advice per recognised status, none for "unknown".
_get_recommendations(info) ==
    IF info.estimated_status \in {"invalid_credentials", "pending", "test", "live"}
    THEN <<info.estimated_status>>
    ELSE <<>>

\* Lines 79-83: classify, advise, return.
ProbeReturn(info, agg, calls) ==
    [info |-> [info EXCEPT !.estimated_status = _estimate_status(info),
                           !.recommendations =
                               _get_recommendations([info EXCEPT !.estimated_status =
                                                        _estimate_status(info)])],
     agg |-> agg, calls |-> calls]

\* Lines 40-57.
ProbeProviders(agg, fault, info) ==
    IF list_providers(agg, fault) = "raises" THEN [info EXCEPT !.provider_error = TRUE]
    ELSE IF list_providers(agg, fault) = "no_data" THEN info
    ELSE [info EXCEPT
            !.can_list_providers = TRUE,
            !.fake_providers_available = \E p \in agg.providers : IsFakeProvider(p),
            !.fake_providers_count = Cardinality({p \in agg.providers : IsFakeProvider(p)}),
            !.real_providers_count = Cardinality({p \in agg.providers : ~IsFakeProvider(p)}),
            !.can_access_real_providers = \E p \in agg.providers : ~IsFakeProvider(p)]

\* Lines 59-77; a failure of the cleanup (lines 70-74) is ignored.
ProbeCustomer(agg, fault, info, created, calls) ==
    IF created.answer = "raises"
    THEN ProbeReturn([info EXCEPT !.customer_error = TRUE], agg, calls)
    ELSE ProbeReturn([info EXCEPT !.can_create_customers = TRUE],
                     remove_customer(created.agg, fault).agg,
                     Append(calls, "remove_customer"))

check_account_status(agg, fault) ==
    IF list_countries(agg, fault) = "raises"
    THEN [info |-> [StatusInfo EXCEPT !.api_error = TRUE,
                                      !.recommendations = <<"check_credentials">>],
          agg |-> agg, calls |-> <<"list_countries">>]
    ELSE ProbeCustomer(agg, fault,
                       ProbeProviders(agg, fault,
                                      [StatusInfo EXCEPT !.api_accessible =
                                           (list_countries(agg, fault) = "data")]),
                       create_customer(agg, fault),
                       <<"list_countries", "list_providers", "create_customer">>)

\* GET /status/saltedge-account: SaltEdgeStatusChecker() needs the client, hence
\* the credentials of the configuration; then one probe run.  The run before it
\* is remembered so that consecutive runs can be compared.
CheckAccountStatus(fault) ==
    /\ CanStep
    /\ secret
    /\ ops' = ops + 1
    /\ \E r \in {check_account_status(probe.agg, fault)} :
          probe' = [runs |-> probe.runs + 1, before |-> probe.agg, fault |-> fault,
                    info |-> r.info, calls |-> r.calls, agg |-> r.agg,
                    prev |-> [fault |-> probe.fault, info |-> probe.info]]
    /\ UNCHANGED <<store, lastOp, conc, secret, queue, response>>

InitProbe ==
    /\ store = EmptyStore
    /\ lastOp = [kind |-> "init", arg |-> NoVal, fault |-> NoFault, run |-> NoRun,
                 created |-> 0]
    /\ ops = 0
    /\ conc = NoConc
    /\ secret = TRUE
    /\ queue = <<>>
    /\ response = NoResponse
    /\ probe \in {[runs |-> 0, before |-> agg, fault |-> NoProbeFault, info |-> StatusInfo,
                   calls |-> <<>>, agg |-> agg,
                   prev |-> [fault |-> NoProbeFault, info |-> StatusInfo]] :
                  agg \in Aggregators}

NextProbe == \E fault \in ProbeFaults : CheckAccountStatus(fault)

SpecProbe == InitProbe /\ [][NextProbe]_vars

\* C24: with accepted credentials, when one sub-probe raises, the run still
\* makes the three probing calls, estimated_status is what the classification
\* rules give for the flags, and a raising countries call is classified
\* invalid_credentials.
C24_SubProbeFailureDegrades ==
    (CanStep /\ probe.agg.credentials) =>
        \A fault \in {f \in ProbeFaults : f.how = "raises"} :
        \A r \in {check_account_status(probe.agg, fault)} :
           /\ \A call \in {"list_countries", "list_providers", "create_customer"} :
                 \E i \in 1..Len(r.calls) : r.calls[i] = call
           /\ r.info.estimated_status = _estimate_status(r.info)
           /\ fault.call = "list_countries" => r.info.estimated_status = "invalid_credentials"

\* C30: a run in which no call fails beyond the account's settings leaves the
\* number of customers with the probe's identifier as it found it, and two such
\* runs in a row return the same estimated_status.
C30_ProbeRepeatable ==
    /\ (probe.runs >= 1 /\ probe.fault = NoProbeFault) =>
          probe.agg.customers = probe.before.customers
    /\ (probe.runs >= 2 /\ probe.fault = NoProbeFault /\ probe.prev.fault = NoProbeFault) =>
          probe.info.estimated_status = probe.prev.info.estimated_status

====
